---- MODULE Spec2Model ----
(***************************************************************************)
(* save-progress: the useFormProgress hook (Progress Store), the           *)
(* AutoSaveFormikForm component (Auto-Save Adapter that owns a store) and  *)
(* the AutoSaveForm component (plain saveFunction wrapper), run by React:  *)
(* state setters queue a value, a render commits it and runs the effects   *)
(* whose dependencies changed by Object.is.                                *)
(***************************************************************************)
EXTENDS Naturals, FiniteSets, Sequences, TLC

VARIABLES
    props,          \* the props the component or hook is given
    hasWindow,      \* typeof window !== 'undefined'
    stores,         \* storage backend -> text held under dataKey
    origin,         \* what put the text of each backend there
    pc,             \* "unmounted", "mounted", "crashed" (an effect threw)
    values,         \* useState values: the latest queued state
    rendered,       \* values as committed by the last render (closures see it)
    initialized,    \* useState initialized: the latest queued state
    renderedInit,   \* initialized as committed by the last render
    initVals,       \* initialValues as the last render's closures see it
    initVals0,      \* initialValues as the first render's closures see it
    fetch,          \* "none", "pending", "settled": the fetchInitialValues promise
    hostValues,     \* Formik context values: the latest queued state
    hostRendered,   \* Formik context values as committed by the last render
    ops,            \* caller and user operations so far
    mounts,         \* instances mounted so far
    lastOp,         \* the last operation: mount, init, update, clear, host
    lastSave,       \* the last run of the save path
    lastClear,      \* the last run of clearValues
    initSet,        \* what initializeValues passed to setValues
    atMount,        \* the text under dataKey when the instance mounted
    everSetItem,    \* setItem was called by some instance
    escaped,        \* an exception left initializeValues (unhandled rejection)
    logged,         \* exceptions caught and logged by the adapter
    thrown,         \* what threw out of a render or an effect: the call's name
    initStarts,     \* how often this instance started initializeValues
    path,           \* the adapter's save path as the last step invoked it
    early,          \* the last value the caller set while the fetch was pending
    orphans,        \* pending initializeValues runs of instances torn down
    lastOrphan      \* what the last of those runs did when its fetch settled

vars == << props, hasWindow, stores, origin, pc, values, rendered, initialized,
           renderedInit, initVals, initVals0, fetch, hostValues, hostRendered,
           ops, mounts, lastOp, lastSave, lastClear, initSet, atMount,
           everSetItem, escaped, logged, thrown, initStarts, path, early,
           orphans, lastOrphan >>

----------------------------------------------------------------------------
(* Bounds *)

MaxOps == 2
MaxMounts == 2

----------------------------------------------------------------------------
(* JavaScript values.  An object is its fields and its identity (id); null *)
(* and undefined have identity 0.  A field is a string, Undefined (the key *)
(* is present and holds undefined) or Absent (the key is not present).     *)

Keys == {"name", "email"}
Absent == "~absent"
Undefined == "~undefined"

Fields(n, e) == [k \in Keys |-> IF k = "name" THEN n ELSE e]
NoFields == Fields(Absent, Absent)

Obj(n, e, id) == [t |-> "obj", f |-> Fields(n, e), id |-> id]
Null == [t |-> "null", f |-> NoFields, id |-> 0]
Undef == [t |-> "undef", f |-> NoFields, id |-> 0]

\* {} as T
EmptyRecord(id) == [t |-> "obj", f |-> NoFields, id |-> id]

\* the same object, as a new identity (a copy)
WithId(v, id) == [t |-> v.t, f |-> v.f, id |-> IF v.t = "obj" THEN id ELSE 0]

\* what a value holds, whatever its identity
Content(v) == [t |-> v.t, f |-> v.f]

\* JavaScript truthiness of the values of the model: objects are truthy
Truthy(v) == v.t = "obj"

\* a || b || c
Or3(a, b, c) == IF Truthy(a) THEN a ELSE IF Truthy(b) THEN b ELSE c

\* Object.is: the same object, or the same primitive
ObjectIs(a, b) == a = b

\* mutant: the first object's keys win
SpreadFields_FirstWins(a, b) == [k \in Keys |-> IF a.f[k] # Absent THEN a.f[k] ELSE b.f[k]]
\* { ...a, ...b }: the keys of b, then the keys of a that b does not have
SpreadFields(a, b) == [k \in Keys |-> IF b.f[k] # Absent THEN b.f[k] ELSE a.f[k]]
Spread(a, b, id) == [t |-> "obj", f |-> SpreadFields(a, b), id |-> id]

----------------------------------------------------------------------------
(* Text held by a storage backend: no entry (getItem returns null), JSON   *)
(* text (kept as the document it spells) or text that is not JSON.         *)

NoEntry == [k |-> "none", doc |-> Content(Null)]
Malformed == [k |-> "bad", doc |-> Content(Null)]
Json(v) == [k |-> "json", doc |-> Content(v)]

\* JSON.stringify(v) as setItem stores it: a key that holds undefined is
\* left out; undefined itself is stored as the text "undefined"
StringifyFields(v) == [k \in Keys |-> IF v.f[k] = Undefined THEN Absent ELSE v.f[k]]
Stringify(v) ==
    IF v.t = "undef" THEN Malformed
    ELSE [k |-> "json", doc |-> [t |-> v.t, f |-> StringifyFields(v)]]

\* JSON.parse(text) throws
ParseThrows(text) == text.k = "bad"
\* JSON.parse(text) when it does not throw; JSON.parse(null) is null
Parse(text, id) == [t |-> text.doc.t, f |-> text.doc.f,
                    id |-> IF text.doc.t = "obj" THEN id ELSE 0]

\* a value JSON spells without loss
JsonCompatible(v) == v.t # "undef" /\ \A k \in Keys : v.f[k] # Undefined

----------------------------------------------------------------------------
(* Inputs *)

Backends == {"local", "session"}

\* initialValues as a caller passes it: omitted, or an object the caller keeps
InitialValuesChoices == {Undef, Obj("", Absent, 1)}
\* text already under dataKey when the page loads
StoredChoices == {NoEntry, Json(Obj("B", Absent, 0)), Json(Obj("B", "B", 0)), Malformed}
\* what a caller passes to the update function
UpdateChoices == {<<"A", Absent>>, <<"A", Undefined>>}
\* what fetchInitialValues resolves to
FetchChoices == {Obj("A", "B", 0), Null}
\* the Formik context's values at mount, and after the user edits a field
HostChoices == {<<"", "">>, <<"", Absent>>}
HostEdits == {<<"A", "">>}

HookProps ==
    { [variant |-> "hook", initialValues |-> iv, storage |-> st,
       saveFunction |-> sf, clearFunction |-> cf, forceLocalActions |-> fl,
       fetchInitialValues |-> fe] :
        iv \in InitialValuesChoices, st \in {"none", "session"},
        sf \in BOOLEAN, cf \in BOOLEAN, fl \in BOOLEAN, fe \in BOOLEAN }

\* AutoSaveFormikForm passes the hook no initialValues of its own and no
\* fetchInitialValues
FormikProps ==
    { [variant |-> "formik", initialValues |-> Undef, storage |-> st,
       saveFunction |-> sf, clearFunction |-> cf, forceLocalActions |-> fl,
       fetchInitialValues |-> FALSE] :
        st \in {"none", "session"}, sf \in BOOLEAN, cf \in BOOLEAN, fl \in BOOLEAN }

\* AutoSaveForm takes a saveFunction and nothing else
PlainProps ==
    { [variant |-> "plain", initialValues |-> Undef, storage |-> "none",
       saveFunction |-> TRUE, clearFunction |-> FALSE, forceLocalActions |-> FALSE,
       fetchInitialValues |-> FALSE] }

\* useSaveProgress with a storage option: key, initialValues, storage
SelectableProps ==
    { [variant |-> "selectable", initialValues |-> iv, storage |-> st,
       saveFunction |-> FALSE, clearFunction |-> FALSE, forceLocalActions |-> FALSE,
       fetchInitialValues |-> FALSE] :
        iv \in InitialValuesChoices, st \in {"none", "session"} }

\* the original useSaveProgress: key and initialValues, localStorage only
OriginalProps ==
    { [variant |-> "original", initialValues |-> iv, storage |-> "none",
       saveFunction |-> FALSE, clearFunction |-> FALSE, forceLocalActions |-> FALSE,
       fetchInitialValues |-> FALSE] : iv \in InitialValuesChoices }

\* a call of saveFunction returns or throws
ThrowChoices == IF props.saveFunction THEN BOOLEAN ELSE {FALSE}

----------------------------------------------------------------------------
(* Object identities.  A new object (an object literal, a JSON.parse or    *)
(* spread result, a value the caller builds) is no object a closure or a   *)
(* state still holds: it gets the k-th identity that none of them uses.    *)

LiveIds == {0, 1, values.id, rendered.id, initVals.id, initVals0.id,
            hostValues.id, hostRendered.id, early.id}
Fresh(k) ==
    CHOOSE i \in 2..(8 + k) :
        /\ i \notin LiveIds
        /\ Cardinality({j \in 2..i : j \notin LiveIds}) = k

----------------------------------------------------------------------------
(* useFormProgress: the parts of the hook *)

\* storage ?? window.localStorage
Selected == IF props.storage = "none" THEN "local" ELSE props.storage

\* mutant: forceLocalActions is not looked at
SaveReturnsEarly_IgnoresForce == props.saveFunction
\* mutant: the return after saveFunction is missing
SaveReturnsEarly_Never == FALSE
\* saveValues: saveFunction is called, and returns before the storage write
SaveReturnsEarly == props.saveFunction /\ ~props.forceLocalActions
\* saveValues: this call of saveFunction throws
SaveThrows(thr) == props.saveFunction /\ thr
\* saveValues without its typeof window guard
SaveWrites_NoWindowGuard(thr) == ~SaveThrows(thr) /\ ~SaveReturnsEarly

\* saveValues: control reaches setItem
SaveWrites(thr) == ~SaveThrows(thr) /\ ~SaveReturnsEarly /\ hasWindow
\* mutant: setItem is given the object itself, stored as "[object Object]"
SavedText_Unencoded(v) == Malformed
\* saveValues: the text setItem is given
SavedText(v) == Stringify(v)
\* saveValues(v): the stores after it
StoresAfterSave(s, v, thr) ==
    IF SaveWrites(thr) THEN [s EXCEPT ![Selected] = SavedText(v)] ELSE s
OriginAfterSave(o, v, thr) ==
    IF SaveWrites(thr) THEN [o EXCEPT ![Selected] = [by |-> "store", val |-> v]] ELSE o
\* what a run of saveValues did
SaveRecord(by, v, thr) ==
    [by |-> by, arg |-> v, fn |-> props.saveFunction, threw |-> SaveThrows(thr),
     wrote |-> SaveWrites(thr), text |-> SavedText(v)]
NoSave == [by |-> "none", arg |-> Null, fn |-> FALSE, threw |-> FALSE,
           wrote |-> FALSE, text |-> NoEntry]

\* clearValues: clearFunction is called, and returns before removeItem
ClearReturnsEarly == props.clearFunction /\ ~props.forceLocalActions
\* clearValues: control reaches removeItem
ClearRemoves == ~ClearReturnsEarly /\ hasWindow
\* clearValues: what setValues is given
ClearTarget == initVals
\* clearFunction given what setValues was given
ClearArgument_AfterReset == ClearTarget

\* clearValues: what clearFunction is given, the values of the render whose
\* clearValues the caller holds
ClearArgument == rendered
\* clearValues: how often it calls clearFunction
ClearCalls == IF props.clearFunction THEN 1 ELSE 0
NoClear == [done |-> FALSE, fn |-> FALSE, calls |-> 0, arg |-> Null, removed |-> FALSE]

\* the storage read with a catch that keeps initialValues
ReadInitialValue_KeepsInitial(text, iv, id) ==
    IF hasWindow
    THEN IF ParseThrows(text) THEN iv ELSE Parse(text, id)
    ELSE iv

\* initializeValues, without fetchInitialValues: initialValue after the storage
\* read (a text that does not parse gives {} as T)
ReadInitialValue(text, iv, id) ==
    IF hasWindow
    THEN IF ParseThrows(text) THEN EmptyRecord(id) ELSE Parse(text, id)
    ELSE iv
\* mutant: initialValues is preferred to what was read
Resolved_InitialFirst(initialValue, iv, id) == Or3(iv, initialValue, EmptyRecord(id))
\* mutant: no fallback to initialValues
Resolved_NoFallback(initialValue, iv, id) == initialValue
\* a setValues that keeps a value the store already holds
Resolved_KeepsCurrent(initialValue, iv, id) == Or3(values, initialValue, EmptyRecord(id))

\* initializeValues: what setValues is given
Resolved(initialValue, iv, id) == Or3(initialValue, iv, EmptyRecord(id))
\* initializeValues: what saveValues is given
WrittenThrough(initialValue, iv, id) == initialValue

\* mutant: the await is not inside a try block
RejectionEscapes_NoCatch(res) == ~res.ok
\* initializeValues: the rejection of fetchInitialValues leaves the try block
\* uncaught (it does not: catch (e) { console.error } takes every rejection)
RejectionEscapes(res) == FALSE

\* the initialization effect without a dependency array: it runs in every
\* render
InitEffectRuns_EveryRender(firstRender) == TRUE

\* the initialization effect runs in this render: its dependency array is
\* empty, so in the first render and in no other
InitEffectRuns(firstRender) == firstRender

\* the adapter's effect with a dependency array that never changes
AdapterEffectRuns_Never == FALSE

\* the adapter's effect on the host's values runs in a re-render: Formik's
\* values changed (memoizedUpdateValues is rebuilt on [values, updateValues])
AdapterEffectRuns == ~ObjectIs(hostValues, hostRendered)

\* the storage read as an `if` of its own after the fetch
ReadsStorageAfterFetch_NoElse == TRUE

\* the storage read is the else branch of `if (fetchInitialValues)`: with a
\* fetch, settled either way, initializeValues does not reach it
ReadsStorageAfterFetch == FALSE

\* initialValues as a render's closures see it: the prop, or the default
\* {} as T made anew by each render; AutoSaveFormikForm passes Formik's values
InitialValuesAt(host, id) ==
    IF props.variant = "formik" THEN host
    ELSE IF props.initialValues = Undef THEN EmptyRecord(id)
    ELSE props.initialValues

----------------------------------------------------------------------------
(* State after construction: the props are given, nothing is mounted yet.   *)
(* The adapters run in a browser: AutoSaveFormikForm names the global       *)
(* localStorage as the default of its storage prop.                         *)

NotInit == [done |-> FALSE, how |-> "none", val |-> Null, initialValue |-> Null,
            read |-> FALSE]
NoPath == [calls |-> 0, arg |-> Null]

Init ==
    /\ props \in HookProps \cup FormikProps \cup PlainProps \cup SelectableProps
                   \cup OriginalProps
    /\ hasWindow \in (IF props.variant = "hook" THEN BOOLEAN ELSE {TRUE})
    /\ \E text \in (IF props.variant = "plain" THEN {NoEntry} ELSE StoredChoices) :
          stores = [b \in Backends |-> IF b = Selected THEN text ELSE NoEntry]
    /\ origin = [b \in Backends |-> [by |-> "env", val |-> Null]]
    /\ pc = "unmounted"
    /\ values = Null
    /\ rendered = Null
    /\ initialized = FALSE
    /\ renderedInit = FALSE
    /\ initVals = Null
    /\ initVals0 = Null
    /\ fetch = "none"
    /\ hostValues \in (IF props.variant \notin {"formik", "plain"} THEN {Null}
                       ELSE {Obj(h[1], h[2], 1) : h \in HostChoices})
    /\ hostRendered = hostValues
    /\ ops = 0
    /\ mounts = 0
    /\ lastOp = "none"
    /\ lastSave = NoSave
    /\ lastClear = NoClear
    /\ initSet = NotInit
    /\ atMount = [text |-> NoEntry, by |-> "none", val |-> Null]
    /\ everSetItem = FALSE
    /\ escaped = FALSE
    /\ logged = 0
    /\ thrown = "none"
    /\ initStarts = 0
    /\ path = NoPath
    /\ early = Null
    /\ orphans = {}
    /\ lastOrphan = NoSave

----------------------------------------------------------------------------
(* useFormProgress, alone or inside AutoSaveFormikForm *)

\* The first render and its effects, in the order they are declared: the
\* initialization effect (initializeValues runs to its end inside it unless it
\* awaits fetchInitialValues), the save-on-change effect (initialized is
\* false: it returns), then AutoSaveFormikForm's mount effect and its
\* memoizedUpdateValues effect.
MountStore(thr) ==
    /\ pc = "unmounted"
    /\ props.variant \in {"hook", "formik"}
    /\ mounts < MaxMounts
    /\ LET formik == props.variant = "formik"
           iv == InitialValuesAt(hostValues, Fresh(1))
           text == stores[Selected]
           sync == ~props.fetchInitialValues
           initialValue == ReadInitialValue(text, iv, Fresh(2))
           set1 == Resolved(initialValue, iv, Fresh(3))
           through == WrittenThrough(initialValue, iv, Fresh(3))
           threw == sync /\ SaveThrows(thr)
           stores1 == IF sync THEN StoresAfterSave(stores, through, thr) ELSE stores
           savedValues == stores1[Selected]
           merges == formik /\ savedValues.k # "none"
       IN  /\ stores' = stores1
           /\ origin' = IF sync THEN OriginAfterSave(origin, through, thr) ELSE origin
           /\ values' = IF formik THEN iv ELSE IF sync THEN set1 ELSE iv
           /\ rendered' = iv
           /\ initialized' = (sync /\ ~threw)
           /\ renderedInit' = FALSE
           /\ initVals' = iv
           /\ initVals0' = iv
           /\ fetch' = IF sync THEN "none" ELSE "pending"
           /\ hostValues' = IF merges /\ ~ParseThrows(savedValues)
                            THEN Spread(hostValues, Parse(savedValues, 0), Fresh(4))
                            ELSE hostValues
           /\ hostRendered' = hostValues
           /\ pc' = IF merges /\ ParseThrows(savedValues) THEN "crashed" ELSE "mounted"
           /\ lastOp' = IF sync THEN "init" ELSE "mount"
           /\ lastSave' = IF sync THEN SaveRecord("init", through, thr) ELSE NoSave
           /\ initSet' = IF sync
                         THEN [done |-> TRUE, how |-> IF hasWindow THEN "storage" ELSE "default",
                               val |-> set1, initialValue |-> initialValue,
                               read |-> hasWindow]
                         ELSE NotInit
           /\ atMount' = [text |-> text, by |-> origin[Selected].by,
                           val |-> origin[Selected].val]
           /\ everSetItem' = (everSetItem \/ (sync /\ SaveWrites(thr)))
           /\ escaped' = threw
           /\ thrown' = IF merges /\ ParseThrows(savedValues) THEN "JSON.parse" ELSE "none"
           /\ path' = IF formik THEN [calls |-> 1, arg |-> iv] ELSE NoPath
    /\ initStarts' = IF InitEffectRuns(TRUE) THEN initStarts + 1 ELSE initStarts
    /\ mounts' = mounts + 1
    /\ lastClear' = NoClear
    /\ UNCHANGED << props, hasWindow, ops, logged, early,
                    orphans, lastOrphan >>

\* fetchInitialValues settles and initializeValues resumes after its await;
\* React applies the setValues and the setInitialized that follow in one
\* render (automatic batching)
FetchSettle(res, thr) ==
    /\ pc \in {"mounted", "crashed"}
    /\ fetch = "pending"
    /\ LET fetched == IF res.ok THEN WithId(res.val, Fresh(1)) ELSE initVals0
           reads == ReadsStorageAfterFetch /\ hasWindow
           initialValue == IF ReadsStorageAfterFetch
                           THEN ReadInitialValue(stores[Selected], fetched, Fresh(3))
                           ELSE fetched
           set1 == Resolved(initialValue, initVals0, Fresh(2))
           through == WrittenThrough(initialValue, initVals0, Fresh(2))
           out == RejectionEscapes(res)
       IN  /\ values' = IF out THEN values ELSE set1
           /\ stores' = IF out THEN stores ELSE StoresAfterSave(stores, through, thr)
           /\ origin' = IF out THEN origin ELSE OriginAfterSave(origin, through, thr)
           /\ initialized' = (~out /\ ~SaveThrows(thr))
           /\ escaped' = (out \/ SaveThrows(thr))
           /\ lastSave' = IF out THEN lastSave ELSE SaveRecord("init", through, thr)
           /\ initSet' = [done |-> ~out, how |-> IF res.ok THEN "fetched" ELSE "rejected",
                          val |-> IF out THEN Null ELSE set1,
                          initialValue |-> IF out THEN Null ELSE initialValue,
                          read |-> reads]
           /\ everSetItem' = (everSetItem \/ (~out /\ SaveWrites(thr)))
    /\ fetch' = "settled"
    /\ lastOp' = "init"
    /\ UNCHANGED << props, hasWindow, pc, rendered, renderedInit, initVals, initVals0,
                    hostValues, hostRendered, ops, mounts, lastClear, atMount, logged,
                    thrown, initStarts, path, early,
                    orphans, lastOrphan >>

\* a state setter was given something the last render did not commit
NeedsRender ==
    \/ ~ObjectIs(values, rendered)
    \/ initialized # renderedInit
    \/ ~ObjectIs(hostValues, hostRendered)

\* the save-on-change effect without its initialized guard
EffectSaves_NoGuard == ~ObjectIs(values, rendered)

\* the save-on-change effect runs its saveValues: its dependency [values]
\* changed and the render's initialized is true
EffectSaves == ~ObjectIs(values, rendered) /\ initialized

\* A render commits the queued state and runs the effects whose dependencies
\* changed: the save-on-change effect, then (AutoSaveFormikForm) the
\* memoizedUpdateValues effect, which passes Formik's values to the setter.
RenderStore(thr) ==
    /\ pc = "mounted"
    /\ props.variant \in {"hook", "formik"}
    /\ NeedsRender
    /\ LET formik == props.variant = "formik"
           threw == EffectSaves /\ SaveThrows(thr)
       IN  /\ stores' = IF EffectSaves THEN StoresAfterSave(stores, values, thr) ELSE stores
           /\ origin' = IF EffectSaves THEN OriginAfterSave(origin, values, thr) ELSE origin
           /\ lastSave' = IF EffectSaves THEN SaveRecord("effect", values, thr) ELSE lastSave
           /\ everSetItem' = (everSetItem \/ (EffectSaves /\ SaveWrites(thr)))
           /\ values' = IF formik /\ AdapterEffectRuns THEN hostValues ELSE values
           /\ path' = IF formik /\ AdapterEffectRuns
                      THEN [calls |-> 1, arg |-> hostValues] ELSE NoPath
           /\ pc' = IF threw THEN "crashed" ELSE "mounted"
           /\ thrown' = IF threw THEN "saveFunction" ELSE thrown
    /\ initStarts' = IF InitEffectRuns(FALSE) THEN initStarts + 1 ELSE initStarts
    /\ rendered' = values
    /\ renderedInit' = initialized
    /\ initVals' = InitialValuesAt(hostValues, Fresh(1))
    /\ hostRendered' = hostValues
    /\ UNCHANGED << props, hasWindow, initialized, initVals0, fetch, hostValues, ops,
                    mounts, lastOp, lastClear, initSet, atMount, escaped, logged, early,
                    orphans, lastOrphan >>

\* the caller passes a new object to the update function (setValues)
Update(c) ==
    /\ pc = "mounted"
    /\ props.variant = "hook"
    /\ ops < MaxOps
    /\ values' = Obj(c[1], c[2], Fresh(1))
    /\ early' = IF fetch = "pending" THEN Obj(c[1], c[2], Fresh(1)) ELSE early
    /\ ops' = ops + 1
    /\ lastOp' = "update"
    /\ UNCHANGED << props, hasWindow, stores, origin, pc, rendered, initialized,
                    renderedInit, initVals, initVals0, fetch, hostValues, hostRendered,
                    mounts, lastSave, lastClear, initSet, atMount, everSetItem,
                    escaped, logged, thrown, initStarts, path,
                    orphans, lastOrphan >>

\* the caller calls clearValues
Clear ==
    /\ pc = "mounted"
    /\ props.variant = "hook"
    /\ ops < MaxOps
    /\ values' = ClearTarget
    /\ lastClear' = [done |-> TRUE, fn |-> props.clearFunction, calls |-> ClearCalls,
                     arg |-> IF props.clearFunction THEN ClearArgument ELSE Null,
                     removed |-> ClearRemoves]
    /\ stores' = IF ClearRemoves THEN [stores EXCEPT ![Selected] = NoEntry] ELSE stores
    /\ origin' = IF ClearRemoves
                 THEN [origin EXCEPT ![Selected] = [by |-> "cleared", val |-> Null]]
                 ELSE origin
    /\ ops' = ops + 1
    /\ lastOp' = "clear"
    /\ UNCHANGED << props, hasWindow, pc, rendered, initialized, renderedInit, initVals,
                    initVals0, fetch, hostValues, hostRendered, mounts,
                    lastSave, initSet, atMount, everSetItem, escaped, logged,
                    thrown, initStarts, path, early,
                    orphans, lastOrphan >>

----------------------------------------------------------------------------
(* AutoSaveForm: the plain saveFunction wrapper *)

\* the effect on [values]: try { saveFunction(values) } catch { console.log }
MountPlain(thr) ==
    /\ pc = "unmounted"
    /\ props.variant = "plain"
    /\ mounts < MaxMounts
    /\ pc' = "mounted"
    /\ hostRendered' = hostValues
    /\ lastSave' = SaveRecord("plain", hostValues, thr)
    /\ logged' = IF SaveThrows(thr) THEN logged + 1 ELSE logged
    /\ path' = [calls |-> 1, arg |-> hostValues]
    /\ lastOp' = "mount"
    /\ mounts' = mounts + 1
    /\ UNCHANGED << props, hasWindow, stores, origin, values, rendered, initialized,
                    renderedInit, initVals, initVals0, fetch, hostValues, ops,
                    lastClear, initSet, atMount, everSetItem, escaped, thrown,
                    initStarts, early,
                    orphans, lastOrphan >>

RenderPlain(thr) ==
    /\ pc = "mounted"
    /\ props.variant = "plain"
    /\ NeedsRender
    /\ hostRendered' = hostValues
    /\ lastSave' = IF AdapterEffectRuns THEN SaveRecord("plain", hostValues, thr) ELSE lastSave
    /\ logged' = IF AdapterEffectRuns /\ SaveThrows(thr) THEN logged + 1 ELSE logged
    /\ path' = IF AdapterEffectRuns THEN [calls |-> 1, arg |-> hostValues] ELSE NoPath
    /\ UNCHANGED << props, hasWindow, stores, origin, pc, values, rendered, initialized,
                    renderedInit, initVals, initVals0, fetch, hostValues, ops,
                    mounts, lastOp, lastClear, initSet, atMount, everSetItem, escaped,
                    thrown, initStarts, early,
                    orphans, lastOrphan >>

----------------------------------------------------------------------------
(* useSaveProgress: the two earlier hooks, which keep their state in
   useState and write storage inside updateValues *)

Earlier == props.variant \in {"selectable", "original"}

\* the backend the lazy initial state reads: localStorage.getItem(key), in
\* both hooks
EarlierReads == "local"

\* the backend saveValues and clearValues act on: the storage option,
\* localStorage when it is omitted (the original hook has no option)
EarlierWrites == Selected

\* the lazy initial state
EarlierInitial(parsed, iv, id) ==
    IF props.variant = "selectable" THEN Or3(parsed, iv, EmptyRecord(id))
    ELSE Or3(parsed, Null, EmptyRecord(id))

\* the original hook's effect on [initialValues] sets the value at mount
OriginalEffectSets == props.variant = "original" /\ Truthy(props.initialValues)

\* the first render (JSON.parse of a malformed entry throws out of it) and,
\* in the original hook, the effect on [initialValues]
MountEarlier ==
    /\ pc = "unmounted"
    /\ Earlier
    /\ LET saved == stores[EarlierReads]
           first == EarlierInitial(Parse(saved, Fresh(1)), props.initialValues, Fresh(2))
       IN  IF ParseThrows(saved)
           THEN /\ pc' = "crashed"
                /\ thrown' = "JSON.parse"
                /\ values' = Null
                /\ rendered' = Null
           ELSE /\ pc' = "mounted"
                /\ thrown' = "none"
                /\ rendered' = first
                /\ values' = IF OriginalEffectSets THEN props.initialValues ELSE first
    /\ initVals' = props.initialValues
    /\ initVals0' = props.initialValues
    /\ atMount' = [text |-> stores[Selected], by |-> origin[Selected].by,
                   val |-> origin[Selected].val]
    /\ lastOp' = "init"
    /\ mounts' = mounts + 1
    /\ UNCHANGED << props, hasWindow, stores, origin, initialized, renderedInit, fetch,
                    hostValues, hostRendered, ops, lastSave, lastClear, initSet,
                    everSetItem, escaped, logged, initStarts, path, early,
                    orphans, lastOrphan >>

\* a render after a state change; neither hook has an effect that runs in it
RenderEarlier ==
    /\ pc = "mounted"
    /\ Earlier
    /\ NeedsRender
    /\ rendered' = values
    /\ UNCHANGED << props, hasWindow, stores, origin, pc, values, initialized,
                    renderedInit, initVals, initVals0, fetch, hostValues, hostRendered,
                    ops, mounts, lastOp, lastSave, lastClear, initSet, atMount,
                    everSetItem, escaped, logged, thrown, initStarts, path, early,
                    orphans, lastOrphan >>

\* updateValues(value): setValues(value); saveValues(value)
UpdateEarlier(c) ==
    /\ pc = "mounted"
    /\ Earlier
    /\ ops < MaxOps
    /\ LET value == Obj(c[1], c[2], Fresh(1))
       IN  /\ values' = value
           /\ stores' = [stores EXCEPT ![EarlierWrites] = Stringify(value)]
           /\ origin' = [origin EXCEPT ![EarlierWrites] = [by |-> "store", val |-> value]]
    /\ everSetItem' = TRUE
    /\ ops' = ops + 1
    /\ lastOp' = "update"
    /\ UNCHANGED << props, hasWindow, pc, rendered, initialized, renderedInit, initVals,
                    initVals0, fetch, hostValues, hostRendered, mounts, lastSave,
                    lastClear, initSet, atMount, escaped, logged, thrown, initStarts,
                    path, early,
                    orphans, lastOrphan >>

\* clearValues: the selectable hook resets the state to initialValues || {}
\* and removes the key; the original hook removes the key and nothing else
ClearEarlier ==
    /\ pc = "mounted"
    /\ Earlier
    /\ ops < MaxOps
    /\ values' = IF props.variant = "selectable"
                 THEN Or3(props.initialValues, Null, EmptyRecord(Fresh(1)))
                 ELSE values
    /\ stores' = [stores EXCEPT ![EarlierWrites] = NoEntry]
    /\ origin' = [origin EXCEPT ![EarlierWrites] = [by |-> "cleared", val |-> Null]]
    /\ lastClear' = [done |-> TRUE, fn |-> FALSE, calls |-> 0, arg |-> Null,
                     removed |-> TRUE]
    /\ ops' = ops + 1
    /\ lastOp' = "clear"
    /\ UNCHANGED << props, hasWindow, pc, rendered, initialized, renderedInit, initVals,
                    initVals0, fetch, hostValues, hostRendered, mounts, lastSave,
                    initSet, atMount, everSetItem, escaped, logged, thrown, initStarts,
                    path, early,
                    orphans, lastOrphan >>

----------------------------------------------------------------------------
(* The host form and the page *)

\* the user edits a field: Formik sets a new values object
HostEdit(c) ==
    /\ pc = "mounted"
    /\ props.variant \in {"formik", "plain"}
    /\ ops < MaxOps
    /\ hostValues' = Obj(c[1], c[2], Fresh(1))
    /\ ops' = ops + 1
    /\ lastOp' = "host"
    /\ path' = NoPath
    /\ UNCHANGED << props, hasWindow, stores, origin, pc, values, rendered, initialized,
                    renderedInit, initVals, initVals0, fetch, hostRendered, mounts,
                    lastSave, lastClear, initSet, atMount, everSetItem, escaped, logged,
                    thrown, initStarts, early,
                    orphans, lastOrphan >>

\* the page is left: the instance is gone, the storage stays; the next mount
\* is a new instance with the same dataKey and storage.  The initialization
\* effect returns no cleanup: an initializeValues that awaits its fetch stays
\* pending with the closures of the instance it belongs to.
Unmount(iv, h) ==
    /\ pc \in {"mounted", "crashed"}
    /\ mounts < MaxMounts
    /\ pc' = "unmounted"
    /\ props' = IF props.variant \notin {"formik", "plain"}
                THEN [props EXCEPT !.initialValues = iv] ELSE props
    /\ hostValues' = IF props.variant \notin {"formik", "plain"}
                     THEN Null ELSE Obj(h[1], h[2], 1)
    /\ hostRendered' = hostValues'
    /\ values' = Null
    /\ rendered' = Null
    /\ initialized' = FALSE
    /\ renderedInit' = FALSE
    /\ initVals' = Null
    /\ initVals0' = Null
    /\ fetch' = "none"
    /\ lastOp' = "none"
    /\ lastSave' = NoSave
    /\ lastClear' = NoClear
    /\ initSet' = NotInit
    /\ escaped' = FALSE
    /\ thrown' = "none"
    /\ initStarts' = 0
    /\ path' = NoPath
    /\ early' = Null
    /\ orphans' = IF fetch = "pending"
                  THEN orphans \cup {[iv0 |-> WithId(initVals0, 0), inst |-> mounts]}
                  ELSE orphans
    /\ lastOrphan' = lastOrphan
    /\ UNCHANGED << hasWindow, stores, origin, ops, mounts, atMount, everSetItem, logged >>

\* the page is left by an instance that has no fetch pending
UnmountSettled(iv, h) == fetch # "pending" /\ Unmount(iv, h)

\* the initialization effect with a cleanup that drops the pending run
TeardownCancels_Aborts == TRUE

\* the teardown stops a pending initializeValues (it does not: the effect
\* returns nothing and initializeValues checks nothing after its await)
TeardownCancels == FALSE

\* the fetch of a torn-down instance settles and its initializeValues
\* resumes: setValues and setInitialized reach no mounted instance, saveValues
\* runs as in any other initialization.  Nothing compares the objects of a
\* torn-down instance with a live one, so they carry no identity.
OrphanSettle(o, res, thr) ==
    /\ o \in orphans
    /\ LET fetched == IF res.ok THEN res.val ELSE o.iv0
           initialValue == IF ReadsStorageAfterFetch
                           THEN ReadInitialValue(stores[Selected], fetched, 0)
                           ELSE fetched
           through == WrittenThrough(initialValue, o.iv0, 0)
           out == RejectionEscapes(res) \/ TeardownCancels
       IN  /\ stores' = IF out THEN stores ELSE StoresAfterSave(stores, through, thr)
           /\ origin' = IF out \/ ~SaveWrites(thr) THEN origin
                        ELSE [origin EXCEPT ![Selected] = [by |-> "orphan", val |-> through]]
           /\ lastOrphan' = IF out THEN [NoSave EXCEPT !.by = "dropped"]
                            ELSE SaveRecord("orphan", through, thr)
           /\ everSetItem' = (everSetItem \/ (~out /\ SaveWrites(thr)))
    /\ orphans' = orphans \ {o}
    /\ UNCHANGED << props, hasWindow, pc, values, rendered, initialized, renderedInit,
                    initVals, initVals0, fetch, hostValues, hostRendered, ops, mounts,
                    lastOp, lastSave, lastClear, initSet, atMount, escaped, logged,
                    thrown, initStarts, path, early >>

----------------------------------------------------------------------------

FetchOutcomes == {[ok |-> TRUE, val |-> v] : v \in FetchChoices}
                     \cup {[ok |-> FALSE, val |-> Null]}

Next ==
    \/ \E thr \in ThrowChoices : MountStore(thr)
    \/ \E res \in FetchOutcomes, thr \in ThrowChoices : FetchSettle(res, thr)
    \/ \E thr \in ThrowChoices : RenderStore(thr)
    \/ \E c \in UpdateChoices : Update(c)
    \/ Clear
    \/ \E thr \in ThrowChoices : MountPlain(thr)
    \/ \E thr \in ThrowChoices : RenderPlain(thr)
    \/ \E c \in HostEdits : HostEdit(c)
    \/ MountEarlier
    \/ RenderEarlier
    \/ \E c \in UpdateChoices : UpdateEarlier(c)
    \/ ClearEarlier
    \/ \E iv \in InitialValuesChoices, h \in HostChoices : UnmountSettled(iv, h)

\* every component and hook, each instance left after its fetch has settled
Spec == Init /\ [][Next]_vars

\* useFormProgress with a fetchInitialValues, whose instances are also torn
\* down while the fetch is pending; the props that play no part in
\* initializeValues are left at their defaults
TeardownProps ==
    {p \in HookProps : p.fetchInitialValues /\ ~p.clearFunction /\ p.storage = "none"}

\* initializeValues never reads the entry under dataKey here: one stored
\* text stands for all
InitTeardown ==
    /\ Init
    /\ props \in TeardownProps
    /\ stores[Selected] \in {NoEntry, Json(Obj("B", Absent, 0))}

NextTeardown ==
    \/ \E thr \in ThrowChoices : MountStore(thr)
    \/ \E res \in FetchOutcomes, thr \in ThrowChoices : FetchSettle(res, thr)
    \/ \E thr \in ThrowChoices : RenderStore(thr)
    \/ \E c \in UpdateChoices : Update(c)
    \/ Clear
    \/ \E iv \in InitialValuesChoices, h \in HostChoices : Unmount(iv, h)
    \/ \E o \in orphans, res \in FetchOutcomes, thr \in ThrowChoices :
          OrphanSettle(o, res, thr)

SpecTeardown == InitTeardown /\ [][NextTeardown]_vars

----------------------------------------------------------------------------
(* Claims *)

\* the store is mounted alone, in a browser, and every queued state has been
\* rendered and its effects have run
HookSettled ==
    /\ props.variant = "hook"
    /\ pc = "mounted"
    /\ hasWindow
    /\ ~NeedsRender

\* storage is where clearValues clears
StorageIsSink == ~props.clearFunction \/ props.forceLocalActions

\* C1: after clearValues on an initialized store whose clear reaches storage,
\* and once the effects it triggers have run, the in-memory value is
\* initialValues and storage holds no entry under dataKey.
C1_ClearLeavesNoEntry ==
    (HookSettled /\ StorageIsSink /\ initialized /\ lastOp = "clear")
        => /\ Content(values) = Content(initVals)
           /\ stores[Selected] = NoEntry

\* C2: with no saveFunction, once the effects of an update made after
\* initialization have run, the text under dataKey decodes to the value last
\* passed to the update function (a value JSON spells without loss).
C2_UpdateRoundTrip ==
    (HookSettled /\ ~props.saveFunction /\ initialized /\ lastOp = "update"
        /\ JsonCompatible(values))
        => /\ stores[Selected].k = "json"
           /\ Content(Parse(stores[Selected], 0)) = Content(values)

\* C2 witness: two updates after initialization, both persisted, the second
\* one read back
C2_Witness ==
    /\ HookSettled /\ ~props.saveFunction /\ initialized /\ lastOp = "update"
    /\ ops = 2
    /\ lastClear.done = FALSE
    /\ JsonCompatible(values)
    /\ lastSave.by = "effect"
    /\ Content(Parse(stores[Selected], 0)) = Content(values)

\* C3: with a saveFunction and forceLocalActions false, no instance ever calls
\* setItem: the text under dataKey is never one a store wrote, and every run
\* of the save path calls saveFunction and nothing else.
C3_SaveFunctionOnly ==
    (props.variant \in {"hook", "formik"} /\ props.saveFunction
        /\ ~props.forceLocalActions)
        => /\ ~everSetItem
           /\ origin[Selected].by # "store"
           /\ (lastSave.by # "none" => lastSave.fn /\ ~lastSave.wrote)

\* C3 witness: initialization, an update and a clear have run and the update
\* went to saveFunction
C3_Witness ==
    /\ props.variant = "hook" /\ props.saveFunction /\ ~props.forceLocalActions
    /\ hasWindow
    /\ initSet.done
    /\ lastSave.by = "effect" /\ lastSave.fn /\ ~lastSave.threw
    /\ lastClear.done
    /\ ~everSetItem


\* a render whose save-on-change effect runs saveValues
PersistStep == pc = "mounted" /\ EffectSaves /\ rendered' = values
\* a call of clearValues
ClearStep == lastOp' = "clear" /\ ops' = ops + 1

\* C4: with forceLocalActions true and both functions supplied, every run of
\* the save-on-change effect calls saveFunction with the value and (when
\* saveFunction returns) leaves its encoding under dataKey, and every clear
\* calls clearFunction and leaves no entry under dataKey.
C4_ForceLocalDoesBoth ==
    [][(props.variant = "hook" /\ hasWindow /\ props.forceLocalActions
            /\ props.saveFunction /\ props.clearFunction)
        => /\ PersistStep =>
                /\ lastSave'.fn
                /\ lastSave'.arg = values
                /\ ~lastSave'.threw => stores'[Selected] = Stringify(values)
           /\ ClearStep =>
                /\ lastClear'.fn
                /\ lastClear'.removed
                /\ stores'[Selected] = NoEntry]_vars

\* C4 witness: an update was persisted to both sinks and a clear then removed
\* the entry
C4_Witness ==
    /\ props.variant = "hook" /\ hasWindow /\ props.forceLocalActions
    /\ props.saveFunction /\ props.clearFunction
    /\ lastSave.by = "effect" /\ lastSave.fn /\ lastSave.wrote
    /\ lastClear.done /\ lastClear.fn /\ lastClear.removed
    /\ stores[Selected] = NoEntry

\* initialValues as the caller of the hook gave it, {} when omitted
GivenInitialValues ==
    IF props.initialValues = Undef THEN EmptyRecord(0) ELSE props.initialValues

\* C5: a truthy value an earlier instance wrote under dataKey (no
\* saveFunction, no fetchInitialValues) is what a later instance with the same
\* dataKey and storage resolves to, whatever initialValues it is given.
C5_StoredValueWins ==
    (props.variant = "hook" /\ hasWindow /\ ~props.saveFunction
        /\ ~props.fetchInitialValues /\ initSet.done
        /\ atMount.by = "store" /\ Truthy(atMount.val) /\ JsonCompatible(atMount.val))
        => /\ Content(initSet.val) = Content(atMount.val)
           /\ lastOp = "init" => values = initSet.val

\* C5 witness: the first instance persisted an update, and the second one is
\* given initialValues that differ from it
C5_Witness ==
    /\ props.variant = "hook" /\ hasWindow /\ ~props.saveFunction
    /\ ~props.fetchInitialValues /\ initSet.done /\ mounts = 2
    /\ atMount.by = "store" /\ Truthy(atMount.val) /\ JsonCompatible(atMount.val)
    /\ props.initialValues # Undef
    /\ atMount.val.f["name"] = "A"
    /\ Content(GivenInitialValues) # Content(atMount.val)
    /\ Content(values) = Content(atMount.val)

\* C6: with no fetchInitialValues and no entry under dataKey at mount,
\* initialization commits initialValues, or {} when initialValues is omitted.
C6_DefaultsWhenNothingStored ==
    (props.variant = "hook" /\ ~props.fetchInitialValues /\ initSet.done
        /\ atMount.text = NoEntry)
        => /\ Content(initSet.val) = Content(GivenInitialValues)
           /\ lastOp = "init" => values = initSet.val

\* C6 witness: initialValues given, nothing stored, initialization has run
C6_Witness ==
    /\ props.variant = "hook" /\ hasWindow /\ ~props.fetchInitialValues
    /\ initSet.done /\ atMount.text = NoEntry /\ lastOp = "init"
    /\ props.initialValues # Undef
    /\ Content(values) = Content(props.initialValues)

\* C7: when fetchInitialValues rejects, initializeValues goes on past the
\* await, commits initialValues and, unless the write-through itself throws,
\* sets initialized with no exception leaving it.
C7_RejectedFetchFallsBack ==
    (props.variant = "hook" /\ props.fetchInitialValues /\ initSet.how = "rejected")
        => /\ initSet.done
           /\ Content(initSet.val) = Content(GivenInitialValues)
           /\ lastOp = "init" => values = initSet.val
           /\ \/ initialized /\ ~escaped
              \/ lastSave.by = "init" /\ lastSave.threw

\* C7 witness: the fetch rejected after the caller had updated the value, and
\* the store is initialized with initialValues
C7_Witness ==
    /\ props.variant = "hook" /\ props.fetchInitialValues
    /\ initSet.how = "rejected" /\ lastOp = "init" /\ ops > 0
    /\ initialized /\ ~escaped
    /\ props.initialValues # Undef
    /\ Content(values) = Content(props.initialValues)

\* C8: what initializeValues hands to saveValues is what it commits as the
\* current value.
C8_WriteThroughIsResolved ==
    (props.variant = "hook" /\ initSet.done /\ lastSave.by = "init")
        => Content(lastSave.arg) = Content(initSet.val)

\* AutoSaveFormikForm's mount effect has merged a stored object into Formik's
\* values and no render has run since: hostRendered is what the host held
\* before the merge, stores[Selected] the text the effect read
MergePending ==
    /\ props.variant = "formik"
    /\ pc = "mounted"
    /\ lastOp = "init"
    /\ ~ObjectIs(hostValues, hostRendered)
    /\ stores[Selected].k = "json"
    /\ stores[Selected].doc.t = "obj"

C10_SaveErrorsSwallowed ==
    (props.variant \in {"plain", "formik"} /\ lastSave.threw
        /\ lastSave.by \in {"plain", "effect"})
        => /\ pc # "crashed"
           /\ logged > 0

\* ---- the adapters' save path ----

Adapter == props.variant \in {"formik", "plain"}

\* the step mounts the adapter
AdapterMounts == pc = "unmounted" /\ pc' = "mounted"

\* the step is the render that commits a changed set of host values
HostCommitted == pc = "mounted" /\ pc' = "mounted" /\ hostRendered' # hostRendered

\* C11: the mount of an adapter, and every render that commits a changed set
\* of the host form's values, invokes the adapter's save path (saveFunction in
\* AutoSaveForm, the owned store's update function in AutoSaveFormikForm)
\* exactly once, with the host's values of that render; no other step of the
\* adapter invokes it.  Steps in which an effect throws out of the component
\* are left aside.
C11_SavePathOncePerChange ==
    [][Adapter /\ pc' # "crashed" =>
         /\ (AdapterMounts \/ HostCommitted) =>
                /\ path'.calls = 1
                /\ ObjectIs(path'.arg, hostRendered')
                /\ props.variant = "plain" =>
                       lastSave'.by = "plain" /\ ObjectIs(lastSave'.arg, hostRendered')
                /\ props.variant = "formik" => ObjectIs(values', hostRendered')
         /\ ~(AdapterMounts \/ HostCommitted) => path'.calls = 0]_vars

C11_Witness ==
    /\ Adapter
    /\ pc = "mounted"
    /\ lastOp = "host"
    /\ ~NeedsRender
    /\ path.calls = 1
    /\ ObjectIs(path.arg, hostValues)
    /\ path.arg.f = Fields("A", "")

\* ---- the storage option ----

\* C12: in every hook that takes a storage option, a value an instance wrote
\* under the key is the value the next instance with the same key and the
\* same storage option starts from: the read and the write select the same
\* backend.
C12_ReadsWhereItWrites ==
    (/\ props.variant \in {"hook", "selectable"}
     /\ props.variant = "hook" =>
            hasWindow /\ ~props.saveFunction /\ ~props.fetchInitialValues
     /\ pc = "mounted" /\ lastOp = "init"
     /\ atMount.by = "store" /\ Truthy(atMount.val) /\ JsonCompatible(atMount.val))
        => Content(values) = Content(atMount.val)

\* C13: in the original useSaveProgress, when storage holds a value under the
\* key at mount, the hook's value once the mount's effects have run and React
\* has rendered is the stored value, whether initialValues is supplied or not.
C13_OriginalStoredWins ==
    (/\ props.variant = "original"
     /\ pc = "mounted" /\ lastOp = "init" /\ ~NeedsRender
     /\ atMount.text.k = "json" /\ atMount.text.doc.t = "obj")
        => Content(values) = atMount.text.doc

\* ---- the initialized gate ----

StoreVariant == props.variant \in {"hook", "formik"}

\* C14: the save-on-change effect persists only in an instance whose
\* initialized is true; while fetchInitialValues is pending the instance has
\* passed no value to saveFunction and written none to storage, neither the
\* defaults nor a value the caller set in the meantime (an entry written
\* meanwhile by a torn-down instance's initialization is not its doing).
C14_NoPersistenceBeforeInitialized ==
    StoreVariant =>
        /\ lastSave.by = "effect" => initialized
        /\ fetch = "pending" =>
              /\ lastSave = NoSave
              /\ \/ stores[Selected] \in {atMount.text, NoEntry}
                 \/ origin[Selected].by = "orphan"
              /\ origin[Selected].by = "store" => atMount.by = "store"

\* C14 witness: the caller set a value while the fetch was pending, React
\* rendered it, and nothing was persisted
C14_Witness ==
    /\ props.variant = "hook" /\ hasWindow
    /\ fetch = "pending" /\ ~initialized
    /\ lastOp = "update" /\ ~NeedsRender
    /\ values.f = Fields("A", Absent)
    /\ lastSave = NoSave
    /\ stores[Selected] = NoEntry

\* C15: the value initialization commits is persisted once, by the
\* initialization itself: as long as nothing else has changed the value, the
\* save-on-change effect does not persist it again.
C15_LoadedValuePersistedOnce ==
    (props.variant = "hook" /\ lastOp = "init" /\ initSet.done)
        => lastSave.by # "effect"

\* ---- the lifecycle of initialized ----

\* the step stays inside one instance
SameInstance == pc # "unmounted" /\ pc' # "unmounted"

\* C16: an instance starts initializeValues exactly once; initialized is false
\* until the initialization has committed its value and true from then on
\* (provided the saveFunction call of the write-through returned), and no
\* step of the instance sets it back to false.
C16_InitializedLifecycle ==
    /\ [](StoreVariant /\ pc # "unmounted" =>
             /\ initStarts = 1
             /\ ~initSet.done => ~initialized
             /\ initSet.done /\ ~escaped => initialized)
    /\ [][StoreVariant /\ SameInstance /\ initialized => initialized']_vars

\* C16 witness: an initialized instance that went on through an update, a
\* clear and their renders
C16_Witness ==
    /\ props.variant = "hook" /\ props.fetchInitialValues
    /\ pc = "mounted" /\ initSet.done /\ initialized
    /\ initStarts = 1
    /\ ops = 2 /\ lastClear.done /\ ~NeedsRender

\* ---- malformed stored text ----

\* C17: mounting AutoSaveFormikForm over a malformed entry under dataKey
\* raises no exception from JSON.parse, whatever saveFunction and
\* forceLocalActions are.
C17_MalformedNeverThrowsInAdapter ==
    (props.variant = "formik" /\ pc # "unmounted" /\ atMount.text = Malformed)
        => thrown # "JSON.parse"

\* C18: with no fetchInitialValues, in a browser, over a malformed entry under
\* dataKey: initialization runs to its end without an exception of its own,
\* the value it commits is the empty record and not initialValues, and the
\* empty record is what its write-through persists.
C18_MalformedResolvesEmpty ==
    (/\ StoreVariant /\ ~props.fetchInitialValues /\ hasWindow
     /\ pc # "unmounted" /\ atMount.text = Malformed)
        => /\ initSet.done
           /\ Content(initSet.val) = Content(EmptyRecord(0))
           /\ escaped => lastSave.threw
           /\ lastSave.by = "init" =>
                 /\ Content(lastSave.arg) = Content(EmptyRecord(0))
                 /\ lastSave.text = Json(EmptyRecord(0))
                 /\ (lastSave.wrote /\ lastOp = "init") =>
                        stores[Selected] = Json(EmptyRecord(0))
           /\ (props.variant = "hook" /\ lastOp = "init") =>
                 Content(values) = Content(EmptyRecord(0))

\* C18 witness: initialValues is supplied and differs from the empty record
C18_Witness ==
    /\ props.variant = "hook" /\ ~props.fetchInitialValues /\ hasWindow
    /\ pc = "mounted" /\ atMount.text = Malformed
    /\ Truthy(props.initialValues)
    /\ Content(props.initialValues) # Content(EmptyRecord(0))
    /\ initSet.done /\ lastSave.by = "init" /\ lastSave.wrote
    /\ stores[Selected] = Json(EmptyRecord(0))
    /\ Content(values) = Content(EmptyRecord(0))

\* ---- clearFunction ----

\* C19: a clearValues of a store with a clearFunction calls it exactly once,
\* with the value the store had before the reset (the values of the last
\* render, not the value the reset sets), and with forceLocalActions false it
\* returns without touching the entry under dataKey.
C19_ClearFunctionGetsPriorValue ==
    [][(props.variant = "hook" /\ props.clearFunction /\ ClearStep) =>
         /\ lastClear'.calls = 1
         /\ ObjectIs(lastClear'.arg, rendered)
         /\ ~ObjectIs(rendered, initVals) => ~ObjectIs(lastClear'.arg, values')
         /\ ~props.forceLocalActions =>
                ~lastClear'.removed /\ stores' = stores]_vars

\* C19 witness: the caller set a value, React rendered it, and the clear
\* handed that value to clearFunction and left the stored entry alone
C19_Witness ==
    /\ props.variant = "hook" /\ props.clearFunction /\ ~props.forceLocalActions
    /\ hasWindow /\ pc = "mounted" /\ lastOp = "clear"
    /\ lastClear.done /\ lastClear.calls = 1 /\ ~lastClear.removed
    /\ lastClear.arg.f = Fields("A", Absent)
    /\ Content(values) # Content(lastClear.arg)
    /\ stores[Selected] # NoEntry

\* ---- fetchInitialValues and storage ----

\* C20: with a fetchInitialValues, initialization does not read storage,
\* whether the fetch resolves or rejects: the value it commits is the fetched
\* one or initialValues (or {}), never the entry under dataKey.
C20_FetchNeverReadsStorage ==
    (StoreVariant /\ props.fetchInitialValues /\ initSet.done)
        => /\ ~initSet.read
           /\ initSet.how \in {"fetched", "rejected"}
           /\ Content(initSet.val) \in
                 {Content(v) : v \in {f \in FetchChoices : Truthy(f)}}
                     \cup {Content(GivenInitialValues)}
           /\ initSet.how = "rejected" =>
                 Content(initSet.val) = Content(GivenInitialValues)

\* C20 witness: the fetch rejected over a stored entry that differs from
\* initialValues, and initialValues was committed
C20_Witness ==
    /\ props.variant = "hook" /\ props.fetchInitialValues /\ hasWindow
    /\ pc = "mounted" /\ initSet.done /\ initSet.how = "rejected"
    /\ atMount.text.k = "json" /\ atMount.text.doc.t = "obj"
    /\ atMount.text.doc # Content(GivenInitialValues)
    /\ Content(values) = Content(GivenInitialValues)
    /\ lastOp = "init"

\* ---- an update while the fetch is pending ----

\* C21: a value the caller passes to the update function while
\* fetchInitialValues is pending is never persisted, and when the fetch
\* settles the in-memory value becomes the fetch result, or initialValues
\* (or {}) when the fetch rejected or resolved to a falsy value: the caller's
\* value is replaced.  Every saveValues of the instance is in lastSave in
\* the state that follows it.
C21_PendingUpdateIsReplaced ==
    (props.variant = "hook" /\ Truthy(early)) =>
        /\ ~ObjectIs(lastSave.arg, early)
        /\ (initSet.done /\ lastOp = "init") =>
              /\ ~ObjectIs(values, early)
              /\ ObjectIs(values, initSet.val)
              /\ Content(values) \in
                    {Content(v) : v \in {f \in FetchChoices : Truthy(f)}}
                        \cup {Content(GivenInitialValues)}
              /\ initSet.how = "rejected" =>
                    Content(values) = Content(GivenInitialValues)

\* C21 witness: the caller set a value while the fetch was pending; the fetch
\* resolved, its result replaced the value and is what storage holds
C21_Witness ==
    /\ props.variant = "hook" /\ hasWindow /\ ~props.saveFunction
    /\ pc = "mounted" /\ Truthy(early)
    /\ initSet.done /\ initSet.how = "fetched" /\ lastOp = "init" /\ ~NeedsRender
    /\ values.f = Fields("A", "B")
    /\ early.f # values.f
    /\ lastSave.by = "effect"
    /\ stores[Selected] = Json(values)

\* ---- teardown while the fetch is pending ----

\* the step is the rest of a torn-down instance's initializeValues
OrphanStep == orphans' # orphans /\ orphans' \subseteq orphans

\* the storage write saveValues makes when its arguments let it through
OrphanMustWrite ==
    /\ hasWindow
    /\ ~props.saveFunction \/ (props.forceLocalActions /\ ~lastOrphan'.threw)

\* C22: when an instance is torn down while fetchInitialValues is pending and
\* the fetch settles later, the rest of its initializeValues still runs and
\* still calls saveValues with the value it obtained (the fetch result, or
\* that instance's initialValues on rejection): saveFunction is called when
\* one is given, and storage is written when saveValues gets as far as
\* setItem.  The state of the instance mounted meanwhile is not touched.
C22_TeardownDoesNotCancel ==
    [][OrphanStep =>
         /\ lastOrphan'.by = "orphan"
         /\ props.saveFunction => lastOrphan'.fn
         /\ Content(lastOrphan'.arg) \in
               {Content(v) : v \in FetchChoices}
                   \cup {Content(o.iv0) : o \in orphans \ orphans'}
         /\ OrphanMustWrite => lastOrphan'.wrote
         /\ lastOrphan'.wrote =>
               /\ stores'[Selected] = lastOrphan'.text
               /\ lastOrphan'.text = Json(lastOrphan'.arg)
         /\ values' = values /\ initialized' = initialized]_vars

\* C22 witness: no instance is mounted, and the entry under dataKey is the
\* fetch result the torn-down instance wrote after its teardown
C22_Witness ==
    /\ props.variant = "hook" /\ props.fetchInitialValues /\ hasWindow
    /\ pc = "unmounted" /\ orphans = {}
    /\ lastOrphan.by = "orphan" /\ lastOrphan.wrote
    /\ lastOrphan.arg.f = Fields("A", "B")
    /\ stores[Selected] = Json(lastOrphan.arg)
    /\ origin[Selected].by = "orphan"

\* ---- no window ----

\* C23: where there is no window, initialization, update and clear read,
\* write and remove nothing in storage and raise no error of their own; the
\* in-memory value resolves to initialValues (or {}) when there is no
\* fetchInitialValues, and a saveFunction or clearFunction that is supplied is
\* still called.
C23_NoWindowNoStorage ==
    (props.variant = "hook" /\ ~hasWindow) =>
        /\ ~everSetItem
        /\ \A b \in Backends : origin[b].by = "env"
        /\ pc # "unmounted" => stores[Selected] = atMount.text
        /\ ~initSet.read
        /\ thrown # "JSON.parse"
        /\ (escaped \/ thrown = "saveFunction") => lastSave.threw
        /\ (initSet.done /\ ~props.fetchInitialValues) =>
              /\ Content(initSet.val) = Content(GivenInitialValues)
              /\ lastOp = "init" => ObjectIs(values, initSet.val)
        /\ initSet.done => lastSave.by # "none"
        /\ lastSave.by # "none" => (lastSave.fn = props.saveFunction /\ ~lastSave.wrote)
        /\ lastClear.done =>
              /\ lastClear.calls = (IF props.clearFunction THEN 1 ELSE 0)
              /\ ~lastClear.removed

\* C23 witness: with forceLocalActions set, an update was persisted through
\* saveFunction and a clear went to clearFunction, and the entry under
\* dataKey is still the one found at mount
C23_Witness ==
    /\ props.variant = "hook" /\ ~hasWindow /\ ~props.fetchInitialValues
    /\ props.saveFunction /\ props.clearFunction /\ props.forceLocalActions
    /\ pc = "mounted" /\ initSet.done /\ ops = 2
    /\ lastSave.by = "effect" /\ lastSave.fn /\ ~lastSave.threw
    /\ lastSave.arg.f = Fields("A", Absent)
    /\ lastClear.done /\ lastClear.calls = 1
    /\ stores[Selected] = Json(Obj("B", Absent, 0))

====
